---- MODULE Spec2Model ----
(***************************************************************************)
(* Height-sampling helpers of crates/cubiomes-sys/cubiomes_helper.c:       *)
(* the generator handle (new / init / accessors), the surface-noise        *)
(* handle, the approximate sampler wrapper and the block-level sampler     *)
(* cubiomes_map_block_height, run by callers (threads) that share one      *)
(* generator handle and own one output buffer each.                        *)
(*                                                                         *)
(* Numbers.  A C int is 32 bits wide.  A double coordinate is kept exactly *)
(* as a record [q, s] that denotes q/4 + s/12: q is a 32-bit integer count *)
(* of quarters, s a small count of twelfths (0..2 while q is inside the    *)
(* int range, the excess beyond the range otherwise).  A noise value n     *)
(* denotes n/3; a depth or height value is a count of 1/800.  Rounding of  *)
(* float arithmetic is not modelled.                                       *)
(***************************************************************************)
EXTENDS Integers, Sequences, FiniteSets, TLC

VARIABLES gen, sn, build, pc, call

vars == <<gen, sn, build, pc, call>>

\* ------------------------------------------------------------ bounds
MaxW == 2
MaxH == 2

\* ------------------------------------------------- program constants
INT_MAX == 2147483647
INT_MIN == (-INT_MAX) - 1

DIM_NETHER == -1
DIM_OVERWORLD == 0
DIM_END == 1

MC_UNDEF == 0
MC_1_17 == 21
MC_1_18 == 22

Threads == {"t1", "t2"}

\* What a build makes of a signed overflow of bx + i (undefined behaviour):
\* two's-complement wrap-around, the sum kept in a wider register, or a
\* trap that ends the process.
Builds == {"wrap", "widen", "trap"}

\* ------------------------------------------------------------ inputs
Seeds == {11, 12}

Cfg(mc, flags, dim, seed) == [mc |-> mc, flags |-> flags, dim |-> dim, seed |-> seed]

AllConfigs ==
    { Cfg(MC_1_18, 0, DIM_OVERWORLD, 11), Cfg(MC_1_18, 0, DIM_OVERWORLD, 12),
      Cfg(MC_1_18, 1, DIM_OVERWORLD, 11), Cfg(MC_1_17, 0, DIM_OVERWORLD, 11),
      Cfg(MC_1_18, 0, DIM_NETHER, 11),    Cfg(MC_1_18, 0, DIM_END, 12) }

FewConfigs ==
    { Cfg(MC_1_18, 0, DIM_OVERWORLD, 11), Cfg(MC_1_18, 0, DIM_OVERWORLD, 12) }

RaceConfigs ==
    { Cfg(MC_1_18, 0, DIM_OVERWORLD, 11), Cfg(MC_1_17, 1, DIM_NETHER, 12) }

AllOrigins == { <<-1, 0>>, <<0, 0>>, <<INT_MAX, 0>>, <<0, INT_MAX>> }
FewOrigins == { <<-1, 0>>, <<0, 0>> }

AllSizes == (0..MaxW) \X (0..MaxH)
PosSizes == (1..MaxW) \X (1..MaxH)

\* ------------------------------------------------------ exact numbers
Abs(n) == IF n < 0 THEN -n ELSE n

\* The exact value q/4 + s/12 in normal form.
Norm(q, s) ==
    LET d == s \div 3
    IN  IF d > 0 /\ q > INT_MAX - d
          THEN [q |-> INT_MAX, s |-> s - 3 * (INT_MAX - q)]
        ELSE IF d < 0 /\ q < INT_MIN - d
          THEN [q |-> INT_MIN, s |-> s + 3 * (q - INT_MIN)]
        ELSE [q |-> q + d, s |-> s % 3]

\* The exact sum a + b of integers, in quarters (never wraps).
Exact(a, b) == Norm(a, 3 * b)

\* v + t/12
WPlus(v, t) == Norm(v.q, v.s + t)

Zero == [q |-> 0, s |-> 0]

\* (12 * v) mod m
Res(v, m) == (3 * (v.q % m) + v.s) % m

\* ------------------------------------------------- generator handle
\* A plausible slip: malloc instead of calloc, the fields left as found.
cubiomes_generator_new_malloc ==
    [mc |-> MC_1_18, flags |-> 0, dim |-> 0, seed |-> 0,
     bn |-> [sp |-> <<>>, climate |-> <<>>]]

\* calloc(1, sizeof(Generator)): every field zero.
cubiomes_generator_new ==
    [mc |-> 0, flags |-> 0, dim |-> 0, seed |-> 0,
     bn |-> [sp |-> <<>>, climate |-> <<>>]]

\* Structural setup: the climate state is shaped for (mc, flags); no
\* seed-dependent coefficient exists yet.
setupGenerator(g, mc, flags) ==
    [g EXCEPT !.mc = mc, !.flags = flags,
              !.bn = [sp |-> <<mc, flags>>, climate |-> <<>>]]

\* Seed application: the coefficients are derived from the seed into the
\* shape the handle has.
applySeed(g, dim, seed) ==
    [g EXCEPT !.dim = dim, !.seed = seed,
              !.bn = [sp |-> g.bn.sp, climate |-> <<g.mc, g.flags, dim, seed>>]]

\* A plausible slip: the wrapper forgets the structural phase.
init_setup_skipped(g, mc, flags) == g

\* A plausible slip: the wrapper forgets the seed phase.
init_seed_skipped(g, dim, seed) == g

\* cubiomes_generator_init, first statement.
init_setup(g, mc, flags) == setupGenerator(g, mc, flags)

\* cubiomes_generator_init, second statement.
init_seed(g, dim, seed) == applySeed(g, dim, seed)

cubiomes_generator_get_mc(g) == g.mc
cubiomes_generator_get_seed(g) == g.seed
cubiomes_generator_get_dim(g) == g.dim

\* Structure set up, seed (and dimension) not yet applied.
HalfInitialized(g) == g.bn.sp # <<>> /\ g.bn.climate = <<>>

\* ------------------------------------------------ surface-noise handle
cubiomes_surface_noise_new == [dim |-> 0, seed |-> 0]

initSurfaceNoise(s, dim, seed) == [dim |-> dim, seed |-> seed]

cubiomes_surface_noise_init(s, dim, seed) == initSurfaceNoise(s, dim, seed)

\* ------------------------------------------- noise fields and spline
Salt(c) == IF c = <<>> THEN 0 ELSE c[1] + 3 * c[2] + 5 * (c[3] + 1) + c[4]

ShapeSalt(sp) == IF sp = <<>> THEN 0 ELSE sp[1] + 3 * sp[2]

FieldSalt(f) ==
    CASE f = "NP_CONTINENTALNESS" -> 1
      [] f = "NP_EROSION" -> 2
      [] f = "NP_SHIFT" -> 3
      [] f = "NP_WEIRDNESS" -> 4

\* A climate field: a fixed function of the coefficients and of the three
\* coordinates, not symmetric in them; values -3..3 (thirds, so -1..1).
sampleDoublePerlin(climate, f, a, b, c) ==
    ((Salt(climate) + FieldSalt(f) + Res(a, 7) + 2 * Res(b, 7) + 4 * Res(c, 7)) % 7) - 3

\* The depth spline: a fixed function of the spline shape and of the four
\* inputs in their order; values in 1/800.
getSpline(sp, vals) ==
    20 * (((ShapeSalt(sp) + vals[1] + 2 * vals[2] + 3 * vals[3] + 5 * vals[4]) % 9) - 4)

\* --------------------------------------- cubiomes_map_block_height
\* bx + i in int arithmetic, then / 4.0: the double coordinate the build
\* computes.  The sum overflows when bx > INT_MAX - i.
bh_coord(b, origin, k) ==
    IF origin > INT_MAX - k
      THEN IF b = "wrap"
             THEN [q |-> ((origin - INT_MAX) + (k - 1)) + INT_MIN, s |-> 0]
             ELSE Exact(origin, k)
      ELSE [q |-> origin + k, s |-> 0]

\* bx + i or bz + j leaves the int range.
bh_overflows(bx, bz, i, j) == bx > INT_MAX - i \/ bz > INT_MAX - j

\* A plausible slip: both shift samples taken at (x, 0, z).
bh_pz_symmetric(bn, x, z) ==
    WPlus(z, 16 * sampleDoublePerlin(bn.climate, "NP_SHIFT", x, Zero, z))

bh_px(bn, x, z) ==
    WPlus(x, 16 * sampleDoublePerlin(bn.climate, "NP_SHIFT", x, Zero, z))

bh_pz(bn, x, z) ==
    WPlus(z, 16 * sampleDoublePerlin(bn.climate, "NP_SHIFT", z, x, Zero))

\* -3.0f * (fabsf(fabsf(w) - 0.6666667f) - 0.33333334f), in thirds.
bh_pv(w) == -3 * (Abs(Abs(w) - 2) - 1)

bh_np_param(bn, px, pz) ==
    LET c == sampleDoublePerlin(bn.climate, "NP_CONTINENTALNESS", px, Zero, pz)
        e == sampleDoublePerlin(bn.climate, "NP_EROSION", px, Zero, pz)
        w_noise == sampleDoublePerlin(bn.climate, "NP_WEIRDNESS", px, Zero, pz)
    IN  <<c, e, bh_pv(w_noise), w_noise>>

\* off = getSpline(..) + 0.015; d = 1.0f - 83.0f / 160.0f + off.
bh_depth(bn, np_param) ==
    LET off == getSpline(bn.sp, np_param) + 12
    IN  (800 - 415) + off

\* (10000.0f * d) / 76.0f
bh_scale(d) == (10000 * d) \div 76

\* The loop body: the value of cell (i, j), from locals and *g alone.
bh_body(b, g, bx, bz, i, j) ==
    LET x == bh_coord(b, bx, i)
        z == bh_coord(b, bz, j)
        px == bh_px(g.bn, x, z)
        pz == bh_pz(g.bn, x, z)
    IN  bh_scale(bh_depth(g.bn, bh_np_param(g.bn, px, pz)))

\* A plausible slip: np_param declared static, so that the iterations of
\* concurrent calls share it (a data race): an iteration that runs while
\* another call is in its loop may pick up the other call's parameters.
bh_value_static_scratch(b, g, bx, bz, i, j) ==
    bh_body(b, g, bx, bz, i, j) + (Cardinality({u \in Threads : pc[u] = "bh_loop"}) - 1)

\* The value an iteration stores.
bh_value(b, g, bx, bz, i, j) == bh_body(b, g, bx, bz, i, j)

\* A plausible slip: column-major index.
bh_index_transposed(w, h, i, j) == i * h + j

\* y[j * w + i]
bh_index(w, h, i, j) == j * w + i

\* A plausible slip: the version floor is not checked.
bh_check_no_floor(g) == IF g.dim # DIM_OVERWORLD THEN 1 ELSE 0

\* The two early returns: 1 when unsupported, 0 to go on.
bh_check(g) ==
    IF g.dim # DIM_OVERWORLD THEN 1
    ELSE IF g.mc < MC_1_18 THEN 1
    ELSE 0

\* A plausible slip: the sampler caches in the handle it is given.
bh_handle_cached(g) == [g EXCEPT !.bn.climate = <<>>]

\* const Generator *g: the sampler leaves the handle as it is.
bh_handle(g) == g

\* ------------------------------------- cubiomes_map_approx_height
\* A coarse (1:4) cell: the same depth composition at the grid point, with
\* the surface-noise octaves blended in.
mapApproxCell(g, s, x, z) ==
    LET cx == [q |-> 4 * x, s |-> 0]
        cz == [q |-> 4 * z, s |-> 0]
        px == bh_px(g.bn, cx, cz)
        pz == bh_pz(g.bn, cx, cz)
    IN  bh_scale(bh_depth(g.bn, bh_np_param(g.bn, px, pz)))
          + ((s.seed + s.dim + 1) % 2)

\* Success for the supported combinations, a distinguished failure otherwise.
mapApproxSupported(g) == g.dim = DIM_OVERWORLD

\* The results the call can give.  On a handle whose seed was never applied
\* the behaviour is undefined: the call may fail, or succeed with heights
\* computed from the state as it is.
mapApproxHeight(y, g, s, x, z, w, h) ==
    LET ok == [ret |-> 0,
               y |-> [k \in DOMAIN y |->
                        mapApproxCell(g, s, x + (k % w), z + (k \div w))]]
        no == [ret |-> 1, y |-> y]
    IN  IF g.bn.climate = <<>> THEN {ok, no}
        ELSE IF mapApproxSupported(g) THEN {ok}
        ELSE {no}

\* ------------------------------------------------------------ callers
\* What a caller's buffer holds before a call: not a height.
Stale == INT_MIN

FreshBuffer(w, h) == [k \in 0..(w * h - 1) |-> Stale]

NoCall == [op |-> "none"]

Resting(t) == pc[t] \in {"idle", "ret"}

Busy(t) == pc[t] \in {"init_seed", "bh_loop"}

\* The caller obligation: an init never overlaps another call on the handle.
\* Under "race" nothing is obeyed (the code has no lock of its own).
MayStart(t, op, mode) ==
    IF mode = "race" THEN TRUE
    ELSE IF op = "init" THEN \A u \in Threads \ {t} : ~Busy(u)
    ELSE \A u \in Threads \ {t} : pc[u] # "init_seed"

\* Another caller is between the two statements of cubiomes_generator_init.
InitRunning(t) == \E u \in Threads \ {t} : pc[u] = "init_seed"

\* Another caller is inside the loops of cubiomes_map_block_height.
LoopRunning(t) == \E u \in Threads \ {t} : pc[u] = "bh_loop"

Init ==
    /\ gen = cubiomes_generator_new
    /\ sn = cubiomes_surface_noise_new
    /\ build \in Builds
    /\ pc = [t \in Threads |-> "idle"]
    /\ call = [t \in Threads |-> NoCall]

\* cubiomes_generator_init: setupGenerator(g, mc, flags) ...
GeneratorInitSetup(t, cfgs, mode) ==
    /\ Resting(t)
    /\ MayStart(t, "init", mode)
    /\ \E c \in cfgs :
         /\ gen' = init_setup(gen, c.mc, c.flags)
         /\ call' = [call EXCEPT ![t] = [op |-> "init", cfg |-> c, g0 |-> gen]]
    /\ pc' = [pc EXCEPT ![t] = "init_seed"]
    /\ UNCHANGED <<sn, build>>

\* ... then applySeed(g, dim, seed).
GeneratorInitSeed(t) ==
    /\ pc[t] = "init_seed"
    /\ gen' = init_seed(gen, call[t].cfg.dim, call[t].cfg.seed)
    /\ pc' = [pc EXCEPT ![t] = "ret"]
    /\ UNCHANGED <<sn, build, call>>

\* cubiomes_generator_get_mc / _get_seed / _get_dim.
Accessor(t, mode) ==
    /\ Resting(t)
    /\ MayStart(t, "read", mode)
    /\ \E which \in {"mc", "seed", "dim"} :
         call' = [call EXCEPT ![t] =
                    [op |-> "get", which |-> which,
                     ret |-> CASE which = "mc" -> cubiomes_generator_get_mc(gen)
                               [] which = "seed" -> cubiomes_generator_get_seed(gen)
                               [] which = "dim" -> cubiomes_generator_get_dim(gen),
                     half |-> HalfInitialized(gen), ini |-> InitRunning(t)]]
    /\ pc' = [pc EXCEPT ![t] = "ret"]
    /\ UNCHANGED <<gen, sn, build>>

SurfaceNoiseInit(t, mode) ==
    /\ Resting(t)
    /\ MayStart(t, "init", mode)
    /\ \E seed \in Seeds : sn' = cubiomes_surface_noise_init(sn, DIM_OVERWORLD, seed)
    /\ call' = [call EXCEPT ![t] = [op |-> "sn_init"]]
    /\ pc' = [pc EXCEPT ![t] = "ret"]
    /\ UNCHANGED <<gen, build>>

\* cubiomes_map_approx_height (ids = NULL): one library call.
ApproxHeight(t, origins, sizes, mode) ==
    /\ Resting(t)
    /\ MayStart(t, "read", mode)
    /\ \E o \in origins, wh \in sizes :
         \E r \in mapApproxHeight(FreshBuffer(wh[1], wh[2]), gen, sn,
                                  o[1], o[2], wh[1], wh[2]) :
         LET w == wh[1]
             h == wh[2]
         IN  call' = [call EXCEPT ![t] =
                        [op |-> "ah", x |-> o[1], z |-> o[2], w |-> w, h |-> h,
                         y |-> r.y, ret |-> r.ret, g0 |-> gen, s0 |-> sn,
                         half |-> HalfInitialized(gen)]]
    /\ pc' = [pc EXCEPT ![t] = "ret"]
    /\ UNCHANGED <<gen, sn, build>>

\* cubiomes_map_block_height: entry and the two early returns.
BlockHeightEnter(t, origins, sizes, mode) ==
    /\ Resting(t)
    /\ MayStart(t, "read", mode)
    /\ \E o \in origins, wh \in sizes :
         LET w == wh[1]
             h == wh[2]
             r == bh_check(gen)
         IN  /\ call' = [call EXCEPT ![t] =
                           [op |-> "bh", bx |-> o[1], bz |-> o[2], w |-> w, h |-> h,
                            i |-> 0, j |-> 0, y |-> FreshBuffer(w, h),
                            cnt |-> [k \in 0..(w * h - 1) |-> 0], oob |-> FALSE,
                            last |-> <<>>, ret |-> r, g0 |-> gen,
                            g1 |-> bh_handle(gen),
                            half |-> HalfInitialized(gen), ini |-> InitRunning(t),
                            ovl |-> LoopRunning(t)]]
             /\ pc' = [pc EXCEPT ![t] = IF r = 0 THEN "bh_loop" ELSE "ret"]
    /\ gen' = bh_handle(gen)
    /\ UNCHANGED <<sn, build>>

\* One iteration of the inner loop (i < w): the body, then i++.
\* On a trapping build an overflowing sum ends the process instead.
BlockHeightCell(t) ==
    /\ pc[t] = "bh_loop"
    /\ call[t].j < call[t].h
    /\ call[t].i < call[t].w
    /\ LET c == call[t]
           v == bh_value(build, gen, c.bx, c.bz, c.i, c.j)
           idx == bh_index(c.w, c.h, c.i, c.j)
           inb == idx \in DOMAIN c.y
       IN  IF build = "trap" /\ bh_overflows(c.bx, c.bz, c.i, c.j)
             THEN /\ pc' = [pc EXCEPT ![t] = "abort"]
                  /\ call' = call
             ELSE /\ pc' = pc
                  /\ call' = [call EXCEPT ![t] =
                       [c EXCEPT !.y = IF inb THEN [c.y EXCEPT ![idx] = v] ELSE c.y,
                                 !.cnt = IF inb THEN [c.cnt EXCEPT ![idx] = @ + 1]
                                         ELSE c.cnt,
                                 !.oob = c.oob \/ ~inb,
                                 !.last = <<c.i, c.j, bh_coord(build, c.bx, c.i),
                                            bh_coord(build, c.bz, c.j), idx>>,
                                 !.i = c.i + 1,
                                 !.g1 = bh_handle(gen),
                                 !.half = c.half \/ HalfInitialized(gen),
                                 !.ini = c.ini \/ InitRunning(t),
                                 !.ovl = c.ovl \/ LoopRunning(t)]]
    /\ gen' = bh_handle(gen)
    /\ UNCHANGED <<sn, build>>

\* The inner loop ends (i >= w): j++, and i = 0 for the next row.
BlockHeightRowEnd(t) ==
    /\ pc[t] = "bh_loop"
    /\ call[t].j < call[t].h
    /\ call[t].i >= call[t].w
    /\ call' = [call EXCEPT ![t].i = 0, ![t].j = call[t].j + 1]
    /\ UNCHANGED <<gen, sn, build, pc>>

\* The outer loop ends (j >= h): return 0.
BlockHeightReturn(t) ==
    /\ pc[t] = "bh_loop"
    /\ call[t].j >= call[t].h
    /\ pc' = [pc EXCEPT ![t] = "ret"]
    /\ UNCHANGED <<gen, sn, build, call>>

\* One caller, every operation, every input.
Next ==
    \E t \in {"t1"} :
        \/ GeneratorInitSetup(t, AllConfigs, "conc")
        \/ GeneratorInitSeed(t)
        \/ Accessor(t, "conc")
        \/ SurfaceNoiseInit(t, "conc")
        \/ ApproxHeight(t, FewOrigins, PosSizes, "conc")
        \/ BlockHeightEnter(t, AllOrigins, AllSizes, "conc")
        \/ BlockHeightCell(t)
        \/ BlockHeightRowEnd(t)
        \/ BlockHeightReturn(t)

Spec == Init /\ [][Next]_vars

\* Two callers on one handle that keep the caller obligation: samplers
\* overlap each other, an init overlaps nothing.  No origin here overflows,
\* so one build stands for all.
InitWrap == Init /\ build = "wrap"

NextConc ==
    \E t \in Threads :
        \/ GeneratorInitSetup(t, FewConfigs, "conc")
        \/ GeneratorInitSeed(t)
        \/ ApproxHeight(t, {<<0, 0>>}, {<<1, 1>>, <<2, 2>>}, "conc")
        \/ BlockHeightEnter(t, {<<-1, 0>>}, PosSizes, "conc")
        \/ BlockHeightCell(t)
        \/ BlockHeightRowEnd(t)
        \/ BlockHeightReturn(t)

SpecConc == InitWrap /\ [][NextConc]_vars

\* Two callers on one handle with no obligation kept.
NextRace ==
    \E t \in Threads :
        \/ GeneratorInitSetup(t, RaceConfigs, "race")
        \/ GeneratorInitSeed(t)
        \/ Accessor(t, "race")
        \/ BlockHeightEnter(t, {<<0, 0>>}, {<<2, 1>>}, "race")
        \/ BlockHeightCell(t)
        \/ BlockHeightRowEnd(t)
        \/ BlockHeightReturn(t)

SpecRace == InitWrap /\ [][NextRace]_vars

\* ============================================================ claims
Untouched(c) == \A k \in DOMAIN c.y : c.y[k] = Stale /\ c.cnt[k] = 0

\* C1: cubiomes_map_block_height on a generator whose dimension is not
\* Overworld, or whose version is below MC_1_18, returns 1 without entering
\* the loops, for every origin and size, and writes no element of the
\* caller's buffer.
C1_UnsupportedLeavesBuffer ==
    \A t \in Threads :
        (/\ call[t].op = "bh"
         /\ (call[t].g0.dim # DIM_OVERWORLD \/ call[t].g0.mc < MC_1_18))
        => /\ pc[t] = "ret"
           /\ call[t].ret = 1
           /\ ~call[t].oob
           /\ Untouched(call[t])

C1_Witness ==
    \E t \in Threads :
        /\ call[t].op = "bh" /\ pc[t] = "ret" /\ call[t].ret = 1
        /\ call[t].g0.dim = DIM_OVERWORLD /\ call[t].g0.mc = MC_1_17
        /\ call[t].g0.bn.climate # <<>>
        /\ call[t].bx = INT_MAX /\ call[t].w = 2 /\ call[t].h = 2

C3_SamplersLeaveHandle ==
    \A t \in Threads :
        call[t].op \in {"bh", "ah"} => gen = call[t].g0

C3_Witness ==
    \E t \in Threads :
        /\ call[t].op = "bh" /\ pc[t] = "ret" /\ call[t].ret = 0
        /\ call[t].w = 2 /\ call[t].h = 2
        /\ gen.bn.climate # <<>> /\ gen.seed = 12

\* C4: when cubiomes_generator_init has returned, the handle is the one a
\* single init of a zeroed handle with the same arguments gives, whatever
\* the handle held before, and the accessors return the arguments.
C4_InitDependsOnLastArgs ==
    \A t \in Threads :
        (call[t].op = "init" /\ pc[t] = "ret") =>
            LET c == call[t].cfg
            IN  /\ gen = applySeed(setupGenerator(cubiomes_generator_new, c.mc, c.flags),
                                   c.dim, c.seed)
                /\ cubiomes_generator_get_mc(gen) = c.mc
                /\ cubiomes_generator_get_dim(gen) = c.dim
                /\ cubiomes_generator_get_seed(gen) = c.seed

C4_Witness ==
    \E t \in Threads :
        /\ call[t].op = "init" /\ pc[t] = "ret"
        /\ call[t].g0.bn.climate # <<>>
        /\ call[t].g0.mc # call[t].cfg.mc
        /\ call[t].g0.seed # call[t].cfg.seed

SameConfig(g, k) ==
    g.mc = k.mc /\ g.flags = k.flags /\ g.dim = k.dim /\ g.seed = k.seed

SameRun(c, d) ==
    /\ c.op = d.op
    /\ c.w = d.w /\ c.h = d.h
    /\ SameConfig(c.g0, d.g0)
    /\ IF c.op = "bh" THEN c.bx = d.bx /\ c.bz = d.bz
       ELSE c.x = d.x /\ c.z = d.z /\ c.s0 = d.s0 /\ c.g0.bn.climate # <<>>

BlockHeightAlone(b, g, bx, bz, w, h) ==
    IF bh_check(g) # 0
      THEN [ret |-> 1, y |-> FreshBuffer(w, h)]
      ELSE [ret |-> 0,
            y |-> [k \in 0..(w * h - 1) |-> bh_body(b, g, bx, bz, k % w, k \div w)]]

\* C7: block-height calls that overlap on one handle, each with its own
\* buffer: every call leaves the handle as it found it, and returns the
\* result code and the buffer it gives when run alone.
C7_ConcurrentAsAlone ==
    \A t \in Threads :
        call[t].op = "bh" =>
            LET c == call[t]
                a == BlockHeightAlone(build, c.g0, c.bx, c.bz, c.w, c.h)
            IN  /\ c.g1 = c.g0
                /\ pc[t] = "bh_loop" => gen = c.g0
                /\ pc[t] = "ret" => (c.ret = a.ret /\ c.y = a.y)

C7_Witness ==
    /\ pc["t1"] = "ret" /\ pc["t2"] = "ret"
    /\ call["t1"].op = "bh" /\ call["t2"].op = "bh"
    /\ call["t1"].ret = 0 /\ call["t2"].ret = 0
    /\ call["t1"].ovl /\ call["t2"].ovl
    /\ call["t1"].w = 2 /\ call["t1"].h = 2
    /\ call["t2"].w = 1 /\ call["t2"].h = 2

\* C8 as stated: no accessor or sampler call observes a half-initialized
\* handle, in any interleaving of calls on the handle.
C8_NeverObservedHalf ==
    \A t \in Threads :
        call[t].op \in {"get", "bh"} => ~call[t].half

\* C8 amended: the handle is half-initialized only while some call of
\* cubiomes_generator_init is between its setup and its seed statement (so
\* setup comes first and seed application follows in the same call), and a
\* call observes a half-initialized handle only if it overlaps such an init
\* of another caller.
C8_HalfOnlyDuringInit ==
    /\ HalfInitialized(gen) => \E u \in Threads : pc[u] = "init_seed"
    /\ \A t \in Threads :
           (call[t].op \in {"get", "bh"} /\ call[t].half) => call[t].ini

C8_Witness ==
    \E t \in Threads :
        /\ call[t].op = "get" /\ call[t].which = "dim"
        /\ call[t].half /\ call[t].ini
        /\ pc[t] = "ret"

\* The composition the specification prescribes for the cell at the world
\* block coordinates X, Z (exact, in quarters).
SpecCell(g, X, Z) ==
    LET sx == sampleDoublePerlin(g.bn.climate, "NP_SHIFT", X, Zero, Z)
        sz == sampleDoublePerlin(g.bn.climate, "NP_SHIFT", Z, X, Zero)
        px == WPlus(X, 16 * sx)
        pz == WPlus(Z, 16 * sz)
        c == sampleDoublePerlin(g.bn.climate, "NP_CONTINENTALNESS", px, Zero, pz)
        e == sampleDoublePerlin(g.bn.climate, "NP_EROSION", px, Zero, pz)
        w == sampleDoublePerlin(g.bn.climate, "NP_WEIRDNESS", px, Zero, pz)
        pv == -3 * (Abs(Abs(w) - 2) - 1)
        offset == getSpline(g.bn.sp, <<c, e, pv, w>>)
        d == 800 - 415 + offset + 12
    IN  (10000 * d) \div 76

\* C9: every cell a call has written holds the prescribed composition at the
\* cell's world block coordinates (origin_x + i, origin_z + j).
C9_CellIsComposition ==
    \A t \in Threads :
        call[t].op = "bh" =>
            LET c == call[t]
            IN  \A k \in DOMAIN c.y :
                    c.cnt[k] = 1 =>
                        c.y[k] = SpecCell(c.g0, Exact(c.bx, k % c.w), Exact(c.bz, k \div c.w))

\* The same, for the regions whose block coordinates all fit in an int.
CellIsCompositionInRange ==
    \A t \in Threads :
        (/\ call[t].op = "bh"
         /\ \A i \in 0..(call[t].w - 1), j \in 0..(call[t].h - 1) :
                ~bh_overflows(call[t].bx, call[t].bz, i, j)) =>
            LET c == call[t]
            IN  \A k \in DOMAIN c.y :
                    c.cnt[k] = 1 =>
                        c.y[k] = SpecCell(c.g0, Exact(c.bx, k % c.w), Exact(c.bz, k \div c.w))

\* C10: for every origin and size the int arithmetic of a cell never wraps:
\* bx + i and bz + j fit in 32 bits and the coordinates computed are the
\* exact sums, and the write index is j*w + i.
C10_NoIntegerWrap ==
    \A t \in Threads :
        (call[t].op = "bh" /\ call[t].last # <<>>) =>
            LET c == call[t]
                i == c.last[1]
                j == c.last[2]
            IN  /\ c.bx <= INT_MAX - i
                /\ c.bz <= INT_MAX - j
                /\ c.last[3] = Exact(c.bx, i)
                /\ c.last[4] = Exact(c.bz, j)
                /\ c.last[5] = j * c.w + i

====
